---- MODULE Spec2Model ----
(***************************************************************************)
(* A model of server.js: an Express application that logs users in with    *)
(* Google OAuth (passport + passport-google-oauth20), keeps the login in   *)
(* an express-session session held in a connect-redis store, and guards    *)
(* /session-info and /dashboard with ensureLoggedIn.                       *)
(*                                                                         *)
(* server.js is configuration plus six route handlers; what a request does *)
(* is what the configured middleware does with those handlers.  Every      *)
(* request is modelled as a small process whose steps are the points where *)
(* it waits for the session store (get / set / destroy / touch); the store *)
(* operation and the code that runs in its callback form one step.         *)
(*                                                                         *)
(* The model is the production configuration: KV_URL is set and sessions   *)
(* live in Redis (connect-redis), not in the development MemoryStore.      *)
(* req.logout is called with a callback: passport 0.6 or later, whose      *)
(* logIn and logOut regenerate the session.                                *)
(*                                                                         *)
(* Time is counted in days.                                                *)
(***************************************************************************)
EXTENDS Integers, Sequences, FiniteSets, TLC

(* ------------------------------ bounds -------------------------------- *)
MaxReqs == 2
NumSids == 2
MaxTime == 26
MaxFlash == 1

(* ------------------------- program constants -------------------------- *)
\* ttl: 14 * 24 * 60 * 60 seconds and maxAge: 14 * 24 * 60 * 60 * 1000 ms
TTL == 14

Suffix == "@stu.pathfinder-mm.org"
AllowListed == "avagarimike11@gmail.com"
NotStudentMsg == "You are not a verified student of Pathfinder Institute Myanmar."
DefaultFailMsg == "Login failed."

(* ------------------------------ inputs -------------------------------- *)
\* the browsers
Clients == {"c1", "c2"}
Slots == 1 .. MaxReqs
SIDs == 1 .. NumSids
NoSid == 0
\* how far the clock may jump between two steps
TickSteps == {13}

Routes == {"/auth/google", "/auth/google/callback", "/auth/failure",
           "/session-info", "/dashboard", "/logout"}
GuardedRoutes == {"/session-info", "/dashboard"}

\* e-mail addresses the identity provider may return
Emails == {"a@stu.pathfinder-mm.org",
           "avagarimike11@gmail.com",
           "random@gmail.com",
           "Avagarimike11@gmail.com",
           "a@stu.pathfinder-mm.org.evil.com",
           "a@STU.pathfinder-mm.org",
           "xavagarimike11@gmail.com",
           "stu.pathfinder-mm.org"}
DisplayNameOf(e) == "Name of " \o e
\* what the provider hands to the callback route
\*   profile : a verified profile (emails may be empty: a malformed assertion)
\*   denied  : ?error=access_denied, without an error_description
\*   error   : the code exchange or the profile fetch failed
ProviderOutcomes ==
    {[kind |-> "profile", emails |-> <<e>>, displayName |-> DisplayNameOf(e),
      description |-> ""] : e \in Emails}
    \cup {[kind |-> "profile", emails |-> <<>>, displayName |-> "Nobody", description |-> ""]}
    \cup {[kind |-> "denied", emails |-> <<>>, displayName |-> "", description |-> ""]}
    \cup {[kind |-> "error", emails |-> <<>>, displayName |-> "", description |-> ""]}

(* ------------------------------- state -------------------------------- *)
VARIABLES
    now,      \* the clock, in days
    storeUp,  \* whether the Redis server answers
    store,    \* the session store: session ID -> record
    cookie,   \* each browser's session cookie
    reqs,     \* the requests in flight
    hist,     \* history, per session ID: what has happened to its login
    owner,    \* history, per session ID: the user its login established
    last      \* history: the response sent by the last step, if it sent one

vars == <<now, storeUp, store, cookie, reqs, hist, owner, last>>

NoUser == [email |-> "", name |-> "", role |-> ""]
NoFlash == [present |-> FALSE, error |-> <<>>]
\* what express-session hashes: the session without its cookie
EmptyData == [user |-> NoUser, flash |-> NoFlash]
\* expires: the cookie.expires inside the stored JSON; ttlAt: when Redis drops the
\* key (EXPIRE moves the key's expiry alone, the stored JSON stays as written).
NoRec == [present |-> FALSE, data |-> EmptyData, expires |-> 0, ttlAt |-> 0]
NoCookie == [sid |-> NoSid, expires |-> 0]
\* A request in flight.  cookieId: the session ID its cookie carried; sid: req.sessionID
\* (NoSid while the session is new and was never written: see FreshSid); data:
\* req.session without its cookie; orig / savedSet, savedData: express-session's
\* originalHash / savedHash; expires: req.session.cookie.expires.
\* histAt (the history of cookieId when the request arrived) and saved (the login's
\* store write was acknowledged) are history.
Idle == [pc |-> "idle", client |-> "", route |-> "", cookieId |-> NoSid, sid |-> NoSid,
         hasSess |-> FALSE, data |-> EmptyData, orig |-> EmptyData,
         savedSet |-> FALSE, savedData |-> EmptyData, expires |-> 0,
         histAt |-> "none", saved |-> FALSE]
\* The response sent last: status and location/body, and what the request was.
\* authenticated: req.isAuthenticated() when it was sent; flashed: the messages
\* /auth/failure took; provider, email, authorized: what the provider handed to a
\* callback, the identity in it and the verdict; body: the JSON of /session-info.
NoBody == [loggedIn |-> FALSE, email |-> "", name |-> "", role |-> ""]
NoResponse == [route |-> "", client |-> "", cookieId |-> NoSid, sid |-> NoSid,
               status |-> "", handlerRan |-> FALSE, authenticated |-> FALSE,
               provider |-> "", body |-> NoBody,
               user |-> NoUser, email |-> "", authorized |-> FALSE, flashed |-> <<>>,
               histAt |-> "none", saved |-> FALSE, storeError |-> FALSE, at |-> 0]

Init ==
    /\ now = 0
    /\ storeUp = TRUE
    /\ store = [s \in SIDs |-> NoRec]
    /\ cookie = [c \in Clients |-> NoCookie]
    /\ reqs = [i \in Slots |-> Idle]
    /\ hist = [s \in SIDs |-> "none"]
    /\ owner = [s \in SIDs |-> NoUser]
    /\ last = NoResponse

(* --------------------------- pure functions --------------------------- *)
\* A test that finds the suffix anywhere in the string (String.prototype.includes):
\* what the policy must not be.
EndsWithAnywhere(s, suffix) ==
    \E k \in 1 .. Len(s) :
        /\ k + Len(suffix) - 1 <= Len(s)
        /\ SubSeq(s, k, k + Len(suffix) - 1) = suffix

\* String.prototype.endsWith
EndsWith(s, suffix) ==
    /\ Len(s) >= Len(suffix)
    /\ SubSeq(s, Len(s) - Len(suffix) + 1, Len(s)) = suffix

\* A callback without the rejection: every verified profile is logged in, with the
\* role "general" where the rule does not hold.  What the policy excludes.
verifyAdmitsAll(profile) ==
    IF profile.emails = <<>>
    THEN [kind |-> "error", user |-> NoUser, message |-> ""]
    ELSE LET email == profile.emails[1]
             isAuthorized == EndsWith(email, Suffix) \/ email = AllowListed
             role == IF isAuthorized THEN "student" ELSE "general"
         IN  [kind |-> "ok",
              user |-> [email |-> email, name |-> profile.displayName, role |-> role],
              message |-> ""]

\* The GoogleStrategy verify callback: done(err, user, info) as a record.
\* profile.emails[0].value throws on a profile without e-mails; the catch
\* hands the exception to done.
verify(profile) ==
    IF profile.emails = <<>>
    THEN [kind |-> "error", user |-> NoUser, message |-> ""]
    ELSE LET email == profile.emails[1]
             isAuthorized == EndsWith(email, Suffix) \/ email = AllowListed
             role == IF isAuthorized THEN "student" ELSE "general"
         IN  IF ~isAuthorized
             THEN [kind |-> "fail", user |-> NoUser, message |-> NotStudentMsg]
             ELSE [kind |-> "ok",
                   user |-> [email |-> email, name |-> profile.displayName, role |-> role],
                   message |-> ""]

\* The same callback as the earlier revision wrote it: two separate tests.
verifyTwoTests(profile) ==
    IF profile.emails = <<>>
    THEN [kind |-> "error", user |-> NoUser, message |-> ""]
    ELSE LET email == profile.emails[1]
             bySuffix == EndsWith(email, Suffix)
             byList == email = AllowListed
             isAuthorized == bySuffix \/ byList
             role == IF byList THEN "student" ELSE IF bySuffix THEN "student" ELSE "general"
         IN  IF ~isAuthorized
             THEN [kind |-> "fail", user |-> NoUser, message |-> NotStudentMsg]
             ELSE [kind |-> "ok",
                   user |-> [email |-> email, name |-> profile.displayName, role |-> role],
                   message |-> ""]

serializeUser(user) == user

\* A deserializer that finds no user in what the session holds: what the check
\* after a login must not meet.
deserializeUserNothing(obj) == NoUser

deserializeUser(obj) == obj

\* No encoding at all: what the failure redirect must not carry.
encodeURIComponentRaw(s) == s

\* encodeURIComponent: the unreserved characters stay, every other one becomes
\* %XX (the table holds the ones the messages use).
Unreserved ==
    {"a","b","c","d","e","f","g","h","i","j","k","l","m","n","o","p","q","r","s","t",
     "u","v","w","x","y","z","A","B","C","D","E","F","G","H","I","J","K","L","M","N",
     "O","P","Q","R","S","T","U","V","W","X","Y","Z","0","1","2","3","4","5","6","7",
     "8","9","-","_",".","!","~","*","'","(",")"}
PercentCode(c) ==
    CASE c = " " -> "%20"
      [] c = "&" -> "%26"
      [] c = "=" -> "%3D"
      [] c = "?" -> "%3F"
      [] c = "@" -> "%40"
      [] c = "/" -> "%2F"
      [] c = "%" -> "%25"
RECURSIVE encodeURIComponent(_)
encodeURIComponent(s) ==
    IF Len(s) = 0 THEN ""
    ELSE LET c == SubSeq(s, 1, 1)
         IN  (IF c \in Unreserved THEN c ELSE PercentCode(c))
                \o encodeURIComponent(SubSeq(s, 2, Len(s)))

(* -------------------------- the session store ------------------------- *)
\* connect-redis RedisStore with ttl 14 days and express-session's cookie.maxAge:
\* the key's time to live is taken from the session's cookie.expires.
getTTL(expires) == expires - now

\* store.set: SET key value EX ttl, or a destroy when the ttl is not positive
storeSet(st, sid, data, expires) ==
    IF getTTL(expires) > 0
    THEN [st EXCEPT ![sid] = [present |-> TRUE, data |-> data, expires |-> expires,
                              ttlAt |-> now + getTTL(expires)]]
    ELSE [st EXCEPT ![sid] = NoRec]

\* A destroy that empties the store (FLUSHDB): what a keyed delete excludes.
storeDestroyAll(st, sid) == [s \in SIDs |-> NoRec]

\* store.destroy: DEL key (a session that was never written has no key)
storeDestroy(st, sid) ==
    IF sid = NoSid THEN st ELSE [st EXCEPT ![sid] = NoRec]

\* A touch that leaves the key's expiry alone (disableTouch): what rolling excludes.
storeTouchNothing(st, sid, expires) == st

\* A touch that writes the key anew instead of moving its expiry: what a refresh
\* must not do to the record.
storeTouchRewrites(st, sid, expires) ==
    IF st[sid].present
    THEN [st EXCEPT ![sid] = [present |-> TRUE, data |-> EmptyData, expires |-> expires,
                              ttlAt |-> now + getTTL(expires)]]
    ELSE st

\* store.touch: EXPIRE key ttl, which does nothing when the key is gone and
\* leaves the stored JSON as it is
storeTouch(st, sid, expires) ==
    IF st[sid].present
    THEN [st EXCEPT ![sid].ttlAt = now + getTTL(expires)]
    ELSE st

(* --------------------------- session middleware ----------------------- *)
\* Session IDs come from uid-safe: a new one is one nobody holds.  A session that is
\* new in a request gets its number here when it is first written, which is when it
\* first shows outside the request.
Used(s) ==
    \/ store[s].present
    \/ \E c \in Clients : cookie[c].sid = s
    \/ \E i \in Slots : reqs[i].cookieId = s \/ reqs[i].sid = s
FreeSids == {s \in SIDs : ~Used(s)}
\* hist keeps the history of the session IDs somebody still holds
Held(h, st, ck, rq) ==
    [s \in SIDs |->
        IF \/ st[s].present
           \/ \E c \in Clients : ck[c].sid = s
           \/ \E i \in Slots : rq[i].cookieId = s \/ rq[i].sid = s
        THEN h[s] ELSE "none"]
\* owner keeps the user of the session IDs whose login is in force
Owned(o, h) == [s \in SIDs |-> IF h[s] = "login" THEN o[s] ELSE NoUser]
FreshSid == CHOOSE s \in FreeSids : \A t \in FreeSids : s <= t

\* generate(): a new, empty session whose cookie expires maxAge from now
generate(r) ==
    [r EXCEPT !.sid = NoSid, !.hasSess = TRUE, !.data = EmptyData, !.orig = EmptyData,
              !.expires = now + TTL]

\* inflate(req, sess): the stored session becomes req.session; resave: false
\* makes its hash the saved hash
inflate(r, rec) ==
    [r EXCEPT !.sid = r.cookieId, !.hasSess = TRUE, !.data = rec.data, !.orig = rec.data,
              !.savedSet = TRUE, !.savedData = rec.data, !.expires = rec.expires]

\* A session that always counts as modified (what saveUninitialized: true amounts
\* to): what the configuration excludes.
isModifiedAlways(r) == TRUE

isModified(r) == r.data # r.orig
isSaved(r) == r.savedSet /\ r.savedData = r.data
Loaded(r) == r.sid # NoSid /\ r.sid = r.cookieId
\* saveUninitialized: false, resave: false
shouldSave(r) ==
    /\ r.hasSess
    /\ IF ~r.savedSet /\ ~Loaded(r) THEN isModified(r) ELSE ~isSaved(r)
shouldTouch(r) == r.hasSess /\ Loaded(r) /\ ~shouldSave(r)
\* rolling: true
shouldSetCookie(r) ==
    /\ r.hasSess
    /\ IF ~Loaded(r) THEN isModified(r) ELSE TRUE

\* req.isAuthenticated(): passport.session() has put the session's user in req.user
isAuthenticated(r) == r.hasSess /\ deserializeUser(r.data.user) # NoUser

Response(r, status) ==
    [NoResponse EXCEPT !.route = r.route, !.client = r.client, !.cookieId = r.cookieId,
                       !.sid = r.sid, !.status = status, !.histAt = r.histAt,
                       !.authenticated = isAuthenticated(r),
                       !.saved = r.saved, !.at = now]

\* res.end() under express-session: the session is touched, then saved if it was
\* modified or else its key's expiry is pushed forward; the cookie is set again
\* (rolling) and the response goes out.
Finish(i, r, resp) ==
    LET expires == now + TTL
        needSid == shouldSave(r) /\ r.sid = NoSid
        sid == IF needSid THEN FreshSid ELSE r.sid
    IN  /\ needSid => FreeSids # {}
        /\ (shouldSave(r) \/ shouldTouch(r)) => storeUp
        /\ store' = IF shouldSave(r) THEN storeSet(store, sid, r.data, expires)
                    ELSE IF shouldTouch(r) THEN storeTouch(store, sid, expires)
                    ELSE store
        /\ cookie' = IF shouldSetCookie(r)
                     THEN [cookie EXCEPT ![r.client] = [sid |-> sid, expires |-> expires]]
                     ELSE cookie
        /\ reqs' = [reqs EXCEPT ![i] = Idle]
        /\ hist' = Held(hist, store', cookie', reqs')
        /\ owner' = Owned(owner, hist')
        /\ last' = [resp EXCEPT !.sid = sid]
        /\ UNCHANGED <<now, storeUp>>

(* ------------------------------ requests ------------------------------ *)
InFlight == {i \in Slots : reqs[i].pc # "idle"}

\* A browser sends a request with its cookie and the session middleware runs:
\* without a cookie it generates a session; with one it asks the store, and
\* inflates the stored session or, finding none, generates one.  The middleware
\* does the same for every route: the route is read where the router takes the
\* request.  At most cap requests are in flight.
Start(c, cap) ==
    \E i \in Slots :
        /\ Cardinality(InFlight) < cap
        /\ reqs[i].pc = "idle"
        /\ \A j \in Slots : j < i => reqs[j].pc # "idle"
        /\ LET ck == cookie[c].sid
               r0 == [Idle EXCEPT !.pc = "session", !.client = c, !.cookieId = ck]
           IN  IF ck = NoSid
               THEN reqs' = [reqs EXCEPT ![i] = generate(r0)]
               ELSE /\ storeUp
                    /\ reqs' = [reqs EXCEPT ![i] =
                            [(IF store[ck].present THEN inflate(r0, store[ck])
                              ELSE generate(r0))
                                EXCEPT !.histAt = hist[ck]]]
        /\ last' = NoResponse
        /\ UNCHANGED <<now, storeUp, store, cookie, hist, owner>>

\* GET /auth/google: passport redirects to Google's authorization endpoint
AuthGoogle(i) ==
    LET r == [reqs[i] EXCEPT !.route = "/auth/google"]
    IN  /\ r.pc = "session"
        /\ Finish(i, r, Response(r, "302 accounts.google.com"))

\* A guard that lets every request through to the handler: what ensureLoggedIn
\* must not be.
ensureLoggedInOpen(i, route) ==
    LET r == [reqs[i] EXCEPT !.route = route]
    IN  /\ r.pc = "session"
        /\ Finish(i, r, [Response(r, IF route = "/session-info"
                                     THEN "200 json" ELSE "200 dashboard.html")
                           EXCEPT !.handlerRan = TRUE,
                                  !.user = deserializeUser(r.data.user)])

\* A body that reports a role of its own instead of the user's: what /session-info
\* must not answer.
sessionInfoOwnRole(user) ==
    [loggedIn |-> TRUE, email |-> user.email, name |-> user.name, role |-> "general"]

\* the JSON of GET /session-info
sessionInfo(user) ==
    [loggedIn |-> TRUE, email |-> user.email, name |-> user.name, role |-> user.role]

\* ensureLoggedIn in front of GET /session-info and GET /dashboard
ensureLoggedIn(i, route) ==
    LET r == [reqs[i] EXCEPT !.route = route]
        user == deserializeUser(r.data.user)
    IN  /\ r.pc = "session"
        /\ IF isAuthenticated(r)
           THEN Finish(i, r, [Response(r, IF route = "/session-info"
                                          THEN "200 json" ELSE "200 dashboard.html")
                                EXCEPT !.handlerRan = TRUE,
                                       !.user = user,
                                       !.body = IF route = "/session-info"
                                                THEN sessionInfo(user) ELSE NoBody])
           ELSE Finish(i, r, Response(r, "302 /index.html"))

\* connect-flash: req.flash(type, msg) appends, req.flash(type) takes the
\* messages away; both create req.session.flash
flashPush(data, msg) ==
    [data EXCEPT !.flash = [present |-> TRUE, error |-> Append(data.flash.error, msg)]]
flashTake(data) ==
    [data EXCEPT !.flash = [present |-> TRUE, error |-> <<>>]]

\* GET /auth/failure
AuthFailure(i) ==
    LET r == [reqs[i] EXCEPT !.route = "/auth/failure"]
        messages == r.data.flash.error
        errorMessage == IF Len(messages) # 0 THEN messages[1] ELSE DefaultFailMsg
        encodedMessage == encodeURIComponent(errorMessage)
    IN  /\ r.pc = "session"
        /\ Finish(i, [r EXCEPT !.data = flashTake(r.data)],
                  [Response(r, "302 /index.html?authError=" \o encodedMessage)
                     EXCEPT !.flashed = messages])

\* passport.authenticate("google", {failureRedirect, failureFlash: true}) failing
\* with a challenge: a message that is a string is flashed, then the redirect
authFail(i, r, message, email) ==
    /\ message # "" => Len(r.data.flash.error) < MaxFlash
    /\ Finish(i, [r EXCEPT !.data = IF message # "" THEN flashPush(r.data, message)
                                    ELSE r.data],
              [Response(r, "302 /auth/failure")
                 EXCEPT !.email = email,
                        !.provider = IF email = "" THEN "denied" ELSE "profile"])

\* req.logIn, first half: session.regenerate destroys the session the request
\* came with and generates a new one, which gets the serialized user
authSuccess(i, r, user) ==
    /\ storeUp
    /\ store' = storeDestroy(store, r.sid)
    /\ reqs' = [reqs EXCEPT ![i] =
            [generate(r) EXCEPT !.pc = "login_save",
                                !.data = [EmptyData EXCEPT !.user = serializeUser(user)]]]
    /\ hist' = Held(IF r.sid # NoSid /\ hist[r.sid] = "login"
                    THEN [hist EXCEPT ![r.sid] = "regen"] ELSE hist,
                    store', cookie, reqs')
    /\ owner' = Owned(owner, hist')
    /\ last' = NoResponse
    /\ UNCHANGED <<now, storeUp, cookie>>

\* GET /auth/google/callback: the provider has answered
Callback(i, o) ==
    LET r == [reqs[i] EXCEPT !.route = "/auth/google/callback"]
        v == verify(o)
    IN  /\ r.pc = "session"
        /\ CASE o.kind = "error" ->
                    Finish(i, r, [Response(r, "500") EXCEPT !.provider = "error"])
             [] o.kind = "denied" -> authFail(i, r, o.description, "")
             [] o.kind = "profile" /\ v.kind = "error" ->
                    Finish(i, r, [Response(r, "500") EXCEPT !.provider = "profile"])
             [] o.kind = "profile" /\ v.kind = "fail" ->
                    authFail(i, r, v.message, o.emails[1])
             [] o.kind = "profile" /\ v.kind = "ok" -> authSuccess(i, r, v.user)

\* A login that goes on to the handler without writing the session: what
\* awaiting session.save excludes.
LoginSaveLater(i) ==
    LET r == reqs[i]
    IN  /\ r.pc = "login_save"
        /\ FreeSids # {}
        /\ reqs' = [reqs EXCEPT ![i] = [r EXCEPT !.pc = "login_respond", !.sid = FreshSid]]
        /\ hist' = Held(hist, store, cookie, reqs')
        /\ owner' = Owned(owner, hist')
        /\ last' = NoResponse
        /\ UNCHANGED <<now, storeUp, store, cookie>>

\* req.logIn, second half: session.save, awaited before the route's handler runs
LoginSave(i) ==
    LET r == reqs[i]
        sid == FreshSid
    IN  /\ r.pc = "login_save"
        /\ storeUp
        /\ FreeSids # {}
        /\ store' = storeSet(store, sid, r.data, r.expires)
        /\ reqs' = [reqs EXCEPT ![i] =
                [r EXCEPT !.pc = "login_respond", !.sid = sid, !.saved = TRUE,
                          !.savedSet = TRUE, !.savedData = r.data]]
        /\ hist' = Held([hist EXCEPT ![sid] = IF store'[sid].present THEN "login" ELSE "none"],
                        store', cookie, reqs')
        /\ owner' = Owned([owner EXCEPT ![sid] = r.data.user], hist')
        /\ last' = NoResponse
        /\ UNCHANGED <<now, storeUp, cookie>>

\* the callback route's handler: res.redirect("/dashboard")
LoginRespond(i) ==
    LET r == reqs[i]
    IN  /\ r.pc = "login_respond"
        /\ Finish(i, r, [Response(r, "302 /dashboard")
                           EXCEPT !.provider = "profile",
                                  !.email = r.data.user.email, !.authorized = TRUE,
                                  !.user = r.data.user])

\* The same handler when the client has gone (it closed the connection while the
\* callback was at work): nothing stops the request, the session has been written,
\* and the redirect with its Set-Cookie reaches nobody.
LoginRespondGone(i) ==
    LET r == reqs[i]
    IN  /\ r.pc = "login_respond"
        /\ reqs' = [reqs EXCEPT ![i] = Idle]
        /\ hist' = Held(hist, store, cookie, reqs')
        /\ owner' = Owned(owner, hist')
        /\ last' = NoResponse
        /\ UNCHANGED <<now, storeUp, store, cookie>>

\* GET /logout, req.logout first half: the user is taken out of the session and
\* the session saved
LogoutSave(i) ==
    LET r == [reqs[i] EXCEPT !.route = "/logout"]
        needSid == r.sid = NoSid
        sid == IF needSid THEN FreshSid ELSE r.sid
        data == [r.data EXCEPT !.user = NoUser]
    IN  /\ r.pc = "session"
        /\ storeUp
        /\ needSid => FreeSids # {}
        /\ store' = storeSet(store, sid, data, r.expires)
        /\ reqs' = [reqs EXCEPT ![i] =
                [r EXCEPT !.pc = "logout_regen", !.sid = sid, !.data = data,
                          !.savedSet = TRUE, !.savedData = data]]
        /\ hist' = Held([hist EXCEPT ![sid] = IF @ = "login" THEN "loggingOut" ELSE @],
                        store', cookie, reqs')
        /\ owner' = Owned(owner, hist')
        /\ last' = NoResponse
        /\ UNCHANGED <<now, storeUp, cookie>>

\* req.logout second half: session.regenerate
LogoutRegenerate(i) ==
    LET r == reqs[i]
    IN  /\ r.pc = "logout_regen"
        /\ storeUp
        /\ store' = storeDestroy(store, r.sid)
        /\ reqs' = [reqs EXCEPT ![i] = [generate(r) EXCEPT !.pc = "logout_destroy"]]
        /\ hist' = Held(hist, store', cookie, reqs')
        /\ owner' = Owned(owner, hist')
        /\ last' = NoResponse
        /\ UNCHANGED <<now, storeUp, cookie>>

\* the /logout handler's callback: req.session.destroy, then the redirect
LogoutDestroy(i) ==
    LET r == reqs[i]
    IN  /\ r.pc = "logout_destroy"
        /\ storeUp
        /\ store' = storeDestroy(store, r.sid)
        /\ reqs' = [reqs EXCEPT ![i] = Idle]
        /\ hist' = Held(IF r.cookieId # NoSid THEN [hist EXCEPT ![r.cookieId] = "logout"]
                        ELSE hist,
                        store', cookie, reqs')
        /\ owner' = Owned(owner, hist')
        /\ last' = Response(r, "302 /index.html")
        /\ UNCHANGED <<now, storeUp, cookie>>

(* ------------------------------ the clock ----------------------------- *)
\* Time passes: Redis drops the keys whose time to live is over.  Browsers drop
\* the cookies that have expired; a client that is no browser may keep them (the
\* server never looks at a cookie's expiry).
Pass(d, keep) ==
    /\ now + d <= MaxTime
    /\ now' = now + d
    /\ store' = [s \in SIDs |->
                    IF store[s].present /\ store[s].ttlAt <= now + d THEN NoRec ELSE store[s]]
    /\ cookie' = [c \in Clients |->
                    IF ~keep /\ cookie[c].sid # NoSid /\ cookie[c].expires <= now + d
                    THEN NoCookie ELSE cookie[c]]
    /\ hist' = Held([s \in SIDs |->
                        IF store[s].present /\ store[s].ttlAt <= now + d /\ hist[s] = "login"
                        THEN "expired" ELSE hist[s]],
                    store', cookie', reqs)
    /\ owner' = Owned(owner, hist')
    /\ last' = NoResponse
    /\ UNCHANGED <<storeUp, reqs>>

\* A request takes milliseconds and the clock counts days: it moves between requests.
Tick(d, keep) == InFlight = {} /\ Pass(d, keep)

\* The clock moves while requests are in flight: requests that are held up for long.
Elapse(d) == InFlight # {} /\ Pass(d, FALSE)

(* ----------------------------- the outage ----------------------------- *)
\* The Redis server stops answering, and answers again.
StoreDown ==
    /\ storeUp
    /\ storeUp' = FALSE
    /\ last' = NoResponse
    /\ UNCHANGED <<now, store, cookie, reqs, hist, owner>>

StoreUp ==
    /\ ~storeUp
    /\ storeUp' = TRUE
    /\ last' = NoResponse
    /\ UNCHANGED <<now, store, cookie, reqs, hist, owner>>

\* A failed store.get taken for "no such session": the request goes on without a
\* session and a guarded route redirects it.  What the middleware must not do.
StartFailAsAnonymous(c, route) ==
    /\ ~storeUp
    /\ cookie[c].sid # NoSid
    /\ last' = [NoResponse EXCEPT !.route = route, !.client = c,
                                  !.cookieId = cookie[c].sid,
                                  !.status = IF route \in GuardedRoutes
                                             THEN "302 /index.html" ELSE "500",
                                  !.storeError = TRUE, !.at = now]
    /\ UNCHANGED <<now, storeUp, store, cookie, reqs, hist, owner>>

\* A failed store.get after which the session is given up and its record dropped
\* when the store is back.  What the middleware must not do.
StartFailDestroys(c, route) ==
    /\ ~storeUp
    /\ cookie[c].sid # NoSid
    /\ store' = storeDestroy(store, cookie[c].sid)
    /\ last' = [NoResponse EXCEPT !.route = route, !.client = c,
                                  !.cookieId = cookie[c].sid, !.status = "500",
                                  !.storeError = TRUE, !.at = now]
    /\ hist' = hist
    /\ owner' = owner
    /\ UNCHANGED <<now, storeUp, cookie, reqs>>

\* A request with a cookie arrives and store.get fails: the session middleware
\* calls next(err), no session is set on the request, and Express answers 500.
\* (A command that waits for the connection instead is a step not yet taken.)
StartFail(c, route) ==
    /\ ~storeUp
    /\ cookie[c].sid # NoSid
    /\ last' = [NoResponse EXCEPT !.route = route, !.client = c,
                                  !.cookieId = cookie[c].sid, !.status = "500",
                                  !.storeError = TRUE, !.at = now]
    /\ UNCHANGED <<now, storeUp, store, cookie, reqs, hist, owner>>

(* --------------------------- specifications --------------------------- *)
Handle ==
    \/ \E i \in Slots : AuthGoogle(i)
    \/ \E i \in Slots, route \in GuardedRoutes : ensureLoggedIn(i, route)
    \/ \E i \in Slots : AuthFailure(i)
    \/ \E i \in Slots, o \in ProviderOutcomes : Callback(i, o)
    \/ \E i \in Slots : LoginSave(i)
    \/ \E i \in Slots : LoginRespond(i)
    \/ \E i \in Slots : LogoutSave(i)
    \/ \E i \in Slots : LogoutRegenerate(i)
    \/ \E i \in Slots : LogoutDestroy(i)

\* requests one after the other, and the clock
Next ==
    \/ \E c \in Clients : Start(c, 1)
    \/ Handle
    \/ \E d \in TickSteps, keep \in BOOLEAN : Tick(d, keep)

Spec == Init /\ [][Next]_vars

\* requests one after the other, by clients that may leave during a login
NextAbandon ==
    \/ Next
    \/ \E i \in Slots : LoginRespondGone(i)

SpecAbandon == Init /\ [][NextAbandon]_vars

\* one browser whose requests overlap: it sends the next before the last is answered
NextOverlap ==
    \/ \E c \in {"c1"} : Start(c, MaxReqs)
    \/ Handle

SpecOverlap == Init /\ [][NextOverlap]_vars

\* the outcomes that log one of two users in
LoginOutcomes ==
    {o \in ProviderOutcomes :
        o.kind = "profile" /\ o.emails \in {<<"a@stu.pathfinder-mm.org">>, <<AllowListed>>}}

\* one browser that logs in and then reads the guarded routes with requests that
\* overlap and may be held up while the clock moves
NextRefresh ==
    \/ \E c \in {"c1"} : Start(c, MaxReqs)
    \/ \E i \in Slots, o \in LoginOutcomes : Callback(i, o)
    \/ \E i \in Slots : LoginSave(i)
    \/ \E i \in Slots : LoginRespond(i)
    \/ \E i \in Slots, route \in GuardedRoutes : ensureLoggedIn(i, route)
    \/ \E d \in TickSteps : Elapse(d)
    \/ \E d \in TickSteps : Tick(d, FALSE)

SpecRefresh == Init /\ [][NextRefresh]_vars

\* two browsers that log in, read the guarded routes and log out, with requests
\* that overlap
NextTwo ==
    \/ \E c \in Clients : Start(c, MaxReqs)
    \/ \E i \in Slots, o \in LoginOutcomes : Callback(i, o)
    \/ \E i \in Slots : LoginSave(i)
    \/ \E i \in Slots : LoginRespond(i)
    \/ \E i \in Slots, route \in GuardedRoutes : ensureLoggedIn(i, route)
    \/ \E i \in Slots : LogoutSave(i)
    \/ \E i \in Slots : LogoutRegenerate(i)
    \/ \E i \in Slots : LogoutDestroy(i)
    \/ \E d \in TickSteps : Tick(d, FALSE)

SpecTwo == Init /\ [][NextTwo]_vars

\* requests one after the other while the store goes down and comes back
NextOutage ==
    \/ \E c \in Clients : Start(c, 1)
    \/ Handle
    \/ StoreDown
    \/ StoreUp
    \/ \E c \in Clients, route \in Routes : StartFail(c, route)

SpecOutage == Init /\ [][NextOutage]_vars

\* the same, with the event loop running every callback that is ready: a request
\* that can take a step takes it.  Nothing makes the store come back.
SpecOutageFair == SpecOutage /\ WF_vars(Handle)

(* ------------------------------ properties ---------------------------- *)
HasUser(s) == s # NoSid /\ store[s].present /\ store[s].data.user # NoUser
\* the policy as stated: E is some prefix followed by the suffix, or the listed address
HasSuffix(e) == \E k \in 0 .. Len(e) : e = SubSeq(e, 1, k) \o Suffix
PolicyAuthorizes(e) == HasSuffix(e) \/ e = AllowListed
ProfileOf(e) ==
    [kind |-> "profile", emails |-> <<e>>, displayName |-> DisplayNameOf(e),
     description |-> ""]
\* the last step answered a callback that carried a verified identity
CallbackWithIdentity == last.route = "/auth/google/callback" /\ last.email # ""
EncodedNotStudentMsg ==
    "You%20are%20not%20a%20verified%20student%20of%20Pathfinder%20Institute%20Myanmar."

\* C1: the verify callback authorizes an e-mail, with role "student", exactly when
\* it ends with "@stu.pathfinder-mm.org" or is "avagarimike11@gmail.com" letter for
\* letter; every other e-mail (the suffix elsewhere than at the tail, the listed
\* address in another case) is rejected.  Both revisions of the callback agree.
C1_VerifyAuthorizesExactly ==
    CallbackWithIdentity =>
        /\ last.authorized <=> PolicyAuthorizes(last.email)
        /\ last.authorized => last.status = "302 /dashboard" /\ last.user.role = "student"
        /\ ~last.authorized => last.status = "302 /auth/failure"
        /\ last.authorized <=> verifyTwoTests(ProfileOf(last.email)).kind = "ok"
        /\ last.authorized => verifyTwoTests(ProfileOf(last.email)).user = last.user
        /\ last.email \in {"Avagarimike11@gmail.com", "a@stu.pathfinder-mm.org.evil.com",
                           "a@STU.pathfinder-mm.org", "xavagarimike11@gmail.com"}
                => ~last.authorized

C1_Witness ==
    /\ CallbackWithIdentity
    /\ last.email = "a@stu.pathfinder-mm.org"
    /\ last.authorized
    /\ last.user.role = "student"

\* C2: a request to /session-info or /dashboard whose session is not authenticated
\* never runs the route's handler and is answered with a redirect to /index.html.
C2_GuardKeepsUnauthenticatedOut ==
    (last.route \in GuardedRoutes /\ ~last.storeError /\ ~last.authenticated) =>
        /\ ~last.handlerRan
        /\ last.status = "302 /index.html"
        /\ last.user = NoUser

C2_Witness ==
    /\ last.route = "/session-info"
    /\ last.cookieId # NoSid
    /\ ~last.authenticated
    /\ last.status = "302 /index.html"

\* C3: for every session ID, a record carrying a user is in the store if and only if
\* a login for that session succeeded and neither a logout nor an expiry of it has
\* happened since.  (Read generously: a logout counts once it has completed, and a
\* session replaced by a new login need not have a record.)
C3_UserRecordIffLoginInForce ==
    \A s \in SIDs :
        /\ HasUser(s) => hist[s] \in {"login", "loggingOut", "regen"}
        /\ hist[s] = "login" => HasUser(s)

\* C4: once a login has succeeded, a check made with the session's ID while no
\* logout or expiry has happened finds the session authenticated: the guarded
\* request is admitted.
C4_CheckAfterLoginAdmits ==
    (last.route \in GuardedRoutes /\ last.histAt = "login") =>
        /\ last.authenticated
        /\ last.handlerRan
        /\ last.user # NoUser

C4_Witness ==
    /\ last.route = "/dashboard"
    /\ last.histAt = "login"
    /\ last.status = "200 dashboard.html"

\* C5: after /logout has completed for a session ID, a check with that session ID
\* finds it not authenticated; and every /logout, the second one of a session too,
\* ends with a redirect to /index.html.
C5_LogoutEndsAuthentication ==
    /\ (last.route \in GuardedRoutes /\ last.histAt = "logout") =>
            ~last.authenticated /\ ~last.handlerRan
    /\ last.route = "/logout" => last.status = "302 /index.html"

C6_Rolled ==
    last.handlerRan =>
        /\ store[last.sid].present
        /\ store[last.sid].ttlAt = last.at + TTL
        /\ cookie[last.client] = [sid |-> last.sid, expires |-> last.at + TTL]
C6_NeverShrinks ==
    \A s \in SIDs :
        (HasUser(s) /\ HasUser(s)') => store'[s].ttlAt >= store[s].ttlAt

\* C6: a request that passes the guard at time t leaves the session's key, and the
\* cookie, expiring at t + 14 days; and no step makes the key of a logged-in
\* session expire earlier than it did.
C6_RollingExpiry == []C6_Rolled /\ [][C6_NeverShrinks]_vars

\* a session written at day 0 and read through a guarded route at day 13 expires
\* at day 27
C6_Witness ==
    /\ last.handlerRan
    /\ last.at = 13
    /\ store[last.sid].expires = 14
    /\ store[last.sid].ttlAt = 27
    /\ cookie[last.client].expires = 27

\* C7: whatever the interleaving, the callback's redirect to /dashboard goes out
\* only after the store has acknowledged the write of the session with its user,
\* and the guard admits only a session that was read from the store.
C7_SuccessAfterAcknowledgedWrite ==
    /\ last.status = "302 /dashboard" =>
            /\ last.saved
            /\ HasUser(last.sid)
            /\ store[last.sid].data.user = last.user
    /\ \A i \in Slots : reqs[i].pc = "login_respond" =>
            reqs[i].saved /\ HasUser(reqs[i].sid)
    /\ last.handlerRan => last.cookieId # NoSid /\ last.sid = last.cookieId

C7_Witness ==
    /\ last.status = "302 /dashboard"
    /\ last.saved
    /\ InFlight # {}

\* C8: a guarded request whose store.get fails is not answered with the redirect
\* to /index.html that an unauthenticated request gets: it is answered 500.
C8_StoreFailureIsNotAnonymous ==
    (last.route \in GuardedRoutes /\ last.storeError) =>
        /\ last.status = "500"
        /\ last.status # "302 /index.html"
        /\ ~last.handlerRan

C8_Witness ==
    /\ last.route = "/dashboard"
    /\ last.storeError
    /\ last.status = "500"

C9_LoginPersists == \A s \in SIDs : hist[s] = "login" => HasUser(s)
C9_FailedCheckWritesNothing == last'.storeError => store' = store

\* C9: a request whose store.get fails changes no record, and through an outage
\* every session that was logged in stays in the store with its user.
C9_StoreErrorIsNoLogout == []C9_LoginPersists /\ [][C9_FailedCheckWritesNothing]_vars

C9_Witness ==
    /\ last.storeError
    /\ last.route \in GuardedRoutes
    /\ hist[last.cookieId] = "login"
    /\ HasUser(last.cookieId)

\* C10 as stated: after a callback with an identity the policy rejects, the client
\* is not authenticated, no record carries a user for it, and it is redirected to
\* the failure path.
C10_RejectedClientIsAnonymous ==
    (CallbackWithIdentity /\ ~last.authorized) =>
        /\ ~last.authenticated
        /\ ~HasUser(last.sid)
        /\ last.status = "302 /auth/failure"

\* C10: a callback with an identity the policy rejects puts no user in any session:
\* the client is authenticated afterwards only if it was before.  The reason is
\* flashed into the session and the callback redirects to /auth/failure, which
\* redirects to /index.html with the reason URL-encoded in authError.
C10_RejectedIdentityChangesNoLogin ==
    /\ (CallbackWithIdentity /\ ~last.authorized) =>
            /\ last.status = "302 /auth/failure"
            /\ last.authenticated <=> last.histAt = "login"
            /\ HasUser(last.sid) <=> last.histAt = "login"
            /\ \A s \in SIDs : HasUser(s) => hist[s] = "login"
            /\ store[last.sid].present
            /\ LET pending == store[last.sid].data.flash.error
               IN  pending # <<>> /\ pending[Len(pending)] = NotStudentMsg
    /\ (last.route = "/auth/failure" /\ last.flashed # <<>>
            /\ last.flashed[1] = NotStudentMsg) =>
            last.status = "302 /index.html?authError=" \o EncodedNotStudentMsg

C10_Witness ==
    /\ last.route = "/auth/failure"
    /\ last.flashed = <<NotStudentMsg>>
    /\ ~last.authenticated
    /\ last.status = "302 /index.html?authError=" \o EncodedNotStudentMsg

\* the last step answered a callback whose identity verification failed: the code
\* exchange or the profile fetch failed, the user denied, or the profile has no e-mail
VerificationFailed ==
    /\ last.route = "/auth/google/callback"
    /\ \/ last.provider \in {"error", "denied"}
       \/ last.provider = "profile" /\ last.email = ""

\* C11: a callback whose identity verification fails redirects the client to the
\* failure page, which carries "Login failed." URL-encoded when there is no more
\* specific reason; the callback leaves the client not authenticated.
C11_VerificationFailureRedirects ==
    /\ VerificationFailed =>
            /\ last.status = "302 /auth/failure"
            /\ ~last.authenticated
    /\ (last.route = "/auth/failure" /\ last.flashed = <<>>) =>
            last.status = "302 /index.html?authError=Login%20failed."

\* C12: for an authenticated session /session-info answers exactly
\* {loggedIn: true, email, name, role} with the e-mail, display name and role of the
\* user the session's login established, whatever was served in between.
C12_SessionInfoIsLoginIdentity ==
    (last.route = "/session-info" /\ last.handlerRan) =>
        /\ last.status = "200 json"
        /\ owner[last.sid] # NoUser
        /\ last.body = [loggedIn |-> TRUE,
                        email |-> owner[last.sid].email,
                        name |-> owner[last.sid].name,
                        role |-> owner[last.sid].role]
        /\ last.body.name = DisplayNameOf(last.body.email)

\* a /session-info served thirteen days after the login
C12_Witness ==
    /\ last.route = "/session-info"
    /\ last.handlerRan
    /\ last.at = 13
    /\ store[last.sid].expires = 14
    /\ last.body.email = AllowListed
    /\ last.body.role = "student"

\* C13: while requests with the same session ID overlap in any order (lookups and
\* refreshes of the expiry), the record of a logged-in session keeps the user its
\* login set, and after each refresh its expiry is the one that refresh wrote.
C13_OverlappingRefreshesKeepRecord ==
    /\ \A s \in SIDs : hist[s] = "login" =>
            /\ store[s].present
            /\ owner[s] # NoUser
            /\ store[s].data.user = owner[s]
    /\ (last.handlerRan /\ hist[last.sid] = "login") =>
            store[last.sid].ttlAt = last.at + TTL

\* a refresh at day 13 answered while another request of the same session, which
\* read the record before, is still in flight
C13_Witness ==
    /\ last.handlerRan
    /\ last.at = 13
    /\ store[last.sid].ttlAt = 27
    /\ \E i \in Slots :
            /\ reqs[i].pc = "session"
            /\ reqs[i].sid = last.sid
            /\ isAuthenticated(reqs[i])

\* C14: every request is answered in the end: a request that waits for a store
\* that does not answer fails after a bounded wait instead of waiting for ever.
C14_EveryRequestAnswered ==
    \A i \in Slots : (reqs[i].pc # "idle") ~> (reqs[i].pc = "idle")

\* C15: starting a login writes no record, and a login that is given up (the client
\* never comes to the callback, or leaves during it) leaves no record behind: a
\* client that is not logged in has no record.  (Read generously: the records that
\* count are those that carry a user; each must belong to a browser that holds its
\* session ID or to the request that is writing it.)
C15_NoOrphanRecord ==
    /\ \A s \in SIDs : HasUser(s) =>
            \/ \E c \in Clients : cookie[c].sid = s
            \/ \E i \in Slots : reqs[i].pc # "idle" /\ reqs[i].sid = s
    /\ (last.route = "/auth/google" /\ last.sid # last.cookieId) => last.sid = NoSid

\* the last step answered a guarded request whose cookie named a session ID that
\* the store did not hold
CheckedMissing ==
    /\ last.route \in GuardedRoutes
    /\ last.cookieId # NoSid
    /\ last.sid # last.cookieId
C16_SameAnswer ==
    /\ CheckedMissing =>
            /\ last.status = "302 /index.html"
            /\ ~last.authenticated
            /\ ~last.handlerRan
            /\ ~last.storeError
            /\ last.sid = NoSid
    /\ (last.route \in GuardedRoutes /\ last.histAt \in {"logout", "expired"}) =>
            CheckedMissing
C16_NoWrite == CheckedMissing' => store' = store

\* C16: a check with a session ID that was never in the store or was logged out,
\* and one with a session ID whose record has expired, are answered alike (not
\* authenticated, redirect to /index.html), without an error, and write nothing
\* to the store.
C16_AbsentAndExpiredAlike == []C16_SameAnswer /\ [][C16_NoWrite]_vars

\* a check with the session ID of a login that expired, by a client that kept the cookie
C16_Witness ==
    /\ CheckedMissing
    /\ last.histAt = "expired"
    /\ last.status = "302 /index.html"

\* C17: every record that carries a user carries one with role "student" and an
\* e-mail the authorization rule admits; no request is ever authenticated as a user
\* with role "general".
C17_OnlyStudents ==
    /\ \A s \in SIDs : HasUser(s) =>
            /\ store[s].data.user.role = "student"
            /\ PolicyAuthorizes(store[s].data.user.email)
    /\ \A i \in Slots : isAuthenticated(reqs[i]) => reqs[i].data.user.role = "student"
    /\ last.authenticated => last.user.role # "general"

C17_Witness ==
    \E s \in SIDs :
        /\ HasUser(s)
        /\ store[s].data.user.email = "a@stu.pathfinder-mm.org"
        /\ store[s].data.user.role = "student"
        /\ hist[s] = "login"

\* the client whose request takes the step
Acting(c) ==
    \E i \in Slots :
        /\ reqs'[i] # reqs[i]
        /\ c = IF reqs[i].pc = "idle" THEN reqs'[i].client ELSE reqs[i].client
C18_Frame ==
    /\ \A s \in SIDs : store'[s] # store[s] =>
            \/ /\ now' # now
               /\ store[s].ttlAt <= now'
               /\ store'[s] = NoRec
            \/ \E i \in Slots :
                    /\ reqs'[i] # reqs[i]
                    /\ s \in {reqs[i].sid, reqs'[i].sid, last'.sid}
    /\ \A c, other \in Clients :
            (Acting(c) /\ other # c /\ cookie[other].sid # NoSid) =>
                store'[cookie[other].sid] = store[cookie[other].sid]

\* C18: a login, a guarded request with its refresh, a logout or an expiry changes
\* the record of its own session ID only: whatever the interleaving of two clients'
\* requests, no step creates, changes or deletes the record of another session.
C18_OtherSessionsUntouched == [][C18_Frame]_vars

\* one client's logout answered while the other, logged in, has a request in flight
C18_Witness ==
    /\ last.route = "/logout"
    /\ last.histAt = "login"
    /\ \E other \in Clients \ {last.client} :
            /\ HasUser(cookie[other].sid)
            /\ \E i \in Slots : reqs[i].pc = "session" /\ reqs[i].client = other

\* C19: once /logout has completed for a session ID, no request that was in flight
\* with that session ID writes its record again, and no later request with that
\* session ID is authenticated.  (Read generously: the record that must not come
\* back is the one that carries the user.)
C19_NoResurrectionAfterLogout ==
    /\ \A s \in SIDs : hist[s] = "logout" => ~HasUser(s)
    /\ \A i \in Slots : (reqs[i].pc = "session" /\ reqs[i].histAt = "logout") =>
            ~isAuthenticated(reqs[i])

====
